---- MODULE Spec2Model ----
(***************************************************************************)
(* Model of main.py: a bot that scrapes a paginated shop listing, keeps    *)
(* the set of tracked items in graphic_cards.json, and notifies the        *)
(* subscribers of added and removed items, from a periodic task            *)
(* (scheduled_task) and from the manual /check_now handler, under a        *)
(* night mode kept in night_mode.json.                                     *)
(*                                                                         *)
(* Both run on one asyncio event loop: a step of the model is the code     *)
(* between two awaits that suspend (an HTTP request, a Telegram send, a    *)
(* sleep).  compare_products and the managers contain no suspending await  *)
(* and run atomically.  The handlers of the Application are dispatched one *)
(* update at a time (python-telegram-bot's default, concurrent_updates     *)
(* off), while scheduled_task is its own task and interleaves with them.   *)
(***************************************************************************)
EXTENDS Integers, Sequences, FiniteSets, TLC

(***************************************************************************)
(* Program constants.                                                      *)
(***************************************************************************)
CHECK_INTERVAL_HOURS == 3
TARGET_PRICE == 1400
\* time(0, 0) and time(8, 0) of is_night_time, in minutes since midnight
night_start == 0
night_end == 480
\* asyncio.sleep(300) of scheduled_task's except branch, in seconds
BACKOFF_SECONDS == 300
\* one day, in minutes: datetime.now().time() is the clock modulo a day
MINUTES_PER_DAY == 1440

(***************************************************************************)
(* Bounds of the model.                                                    *)
(***************************************************************************)
\* the clock stops advancing here (minutes since the start)
MaxNow == 960
\* transport, file and delivery failures the environment may inject
MaxFaults == 1
\* cycles (scheduled and manual) that may start
MaxCycles == 2
\* start_mail and night_mode commands the users may send
MaxCommands == 2
\* changes of the shop's listing
MaxSiteChanges == 1
\* longest snapshot handed to compare_products by the reconcile harness
MaxLen == 2
\* the reconcile harness calls compare_products this many times
MaxCalls == 2
\* most product elements on a page of the parse harness
MaxItems == 3
\* longest price text the price harness enumerates
MaxText == 4

\* how far the clock may advance in one step
ClockSteps == {480}

Users == {"u1", "u2"}

\* who sends night_mode: the sender goes to last_toggled_by and nowhere else
NightModeUsers == {"u1"}

(***************************************************************************)
(* Price texts: sequences of one-character strings.  "p" stands for the    *)
(* currency letter and " " for the thousands spacing.                      *)
(***************************************************************************)
DigitChars == <<"0", "1", "2", "3", "4", "5", "6", "7", "8", "9">>

IsDigit(c) == \E i \in 1..10 : DigitChars[i] = c

DigitVal(c) == (CHOOSE i \in 1..10 : DigitChars[i] = c) - 1

RECURSIVE FilterPeriodOnly(_, _)
\* a cleaning that keeps the period and drops the comma with the rest
FilterPeriodOnly(text, i) ==
  IF i > Len(text) THEN <<>>
  ELSE LET c == text[i]
       IN  IF IsDigit(c) \/ c = "." THEN <<c>> \o FilterPeriodOnly(text, i + 1)
           ELSE FilterPeriodOnly(text, i + 1)

RECURSIVE Filter(_, _)
\* re.sub(r'[^\d,.]', '', text), then replace(',', '.')
Filter(text, i) ==
  IF i > Len(text) THEN <<>>
  ELSE LET c == text[i]
       IN  IF IsDigit(c) THEN <<c>> \o Filter(text, i + 1)
           ELSE IF c = "," \/ c = "." THEN <<".">> \o Filter(text, i + 1)
           ELSE Filter(text, i + 1)

\* index of the first "." of s, 0 when there is none
FirstDot(s) ==
  IF \E i \in 1..Len(s) : s[i] = "."
  THEN CHOOSE i \in 1..Len(s) : s[i] = "." /\ \A j \in 1..(i - 1) : s[j] # "."
  ELSE 0

RECURSIVE DropDots(_, _)
DropDots(s, i) ==
  IF i > Len(s) THEN <<>>
  ELSE IF s[i] = "." THEN DropDots(s, i + 1)
  ELSE <<s[i]>> \o DropDots(s, i + 1)

RECURSIVE ToNat(_, _)
\* the decimal value of the first n digits of ds
ToNat(ds, n) == IF n = 0 THEN 0 ELSE 10 * ToNat(ds, n - 1) + DigitVal(ds[n])

RECURSIVE StripZeros(_)
StripZeros(ds) ==
  IF ds = <<>> THEN <<>>
  ELSE IF ds[Len(ds)] = "0" THEN StripZeros(SubSeq(ds, 1, Len(ds) - 1))
  ELSE ds

\* A float is its whole part and its fractional digits without trailing
\* zeros; NoPrice is parse_price's None.
NoPrice == [valid |-> FALSE, whole |-> 0, frac |-> <<>>]

parse_price(price_text) ==
  LET cleaned == Filter(price_text, 1)
      d       == FirstDot(cleaned)
      whole   == IF d = 0 THEN cleaned ELSE SubSeq(cleaned, 1, d - 1)
      \* parts[0] + '.' + ''.join(parts[1:]): the later dots are dropped
      frac    == IF d = 0 THEN <<>>
                 ELSE DropDots(SubSeq(cleaned, d + 1, Len(cleaned)), 1)
  IN  IF whole = <<>> /\ frac = <<>>
      THEN NoPrice                        \* float('') and float('.') raise
      ELSE [valid |-> TRUE, whole |-> ToNat(whole, Len(whole)),
            frac |-> StripZeros(frac)]

\* a filter that lets TARGET_PRICE itself through
AtOrBelowTarget(price) ==
  price.whole < TARGET_PRICE \/ (price.whole = TARGET_PRICE /\ price.frac = <<>>)

\* price < TARGET_PRICE for a float with a non-negative fraction
BelowTarget(price) == price.whole < TARGET_PRICE

(***************************************************************************)
(* The shop.  A page is the sequence of its product elements; an element   *)
(* names in elems the children the page has for it.                        *)
(***************************************************************************)
BASE_URL == "https://dns-shop.by"

\* the elements a complete product has
Elements == {"title", "price", "image"}

RawA == [title |-> "A", price_text |-> <<"1", "2", "0", "0">>,
         image |-> "/a.png", elems |-> Elements]
RawB == [title |-> "B",
         price_text |-> <<"1", " ", "3", "0", "0", ",", "5", " ", "p", ".">>,
         image |-> "http://b.png", elems |-> Elements]
\* priced at TARGET_PRICE exactly
RawHigh == [title |-> "C", price_text |-> <<"1", "4", "0", "0">>,
            image |-> "/c.png", elems |-> Elements]
RawBad == [title |-> "D", price_text |-> <<"p", ".">>,
           image |-> "/d.png", elems |-> Elements]
RawNoImage == [title |-> "E", price_text |-> <<"9", "0", "0">>,
               image |-> "", elems |-> {"title", "price"}]

\* title A at another price: another identity
RawCheap == [title |-> "A",
             price_text |-> <<"1", " ", "1", "0", "0", ",", "0", "0", " ", "p", ".">>,
             image |-> "/a.png", elems |-> Elements]

Catalogue == <<RawA, RawB, RawCheap, RawHigh, RawBad, RawNoImage>>

\* the listings the shop may show: each a sequence of pages
FullListing == << <<RawA, RawHigh>>, <<RawB, RawBad>> >>

Listings == { <<>>, FullListing, << <<RawA, RawNoImage>>, <<RawA>> >> }

\* the image sources that start with 'http'
AbsoluteImages == {"http://b.png"}

image_url(image) ==
  IF image # "" /\ image \notin AbsoluteImages THEN BASE_URL \o image ELSE image

(***************************************************************************)
(* DNSParser.                                                              *)
(***************************************************************************)
NoHtml == [ok |-> FALSE, products |-> <<>>]

\* The response to one page request: the page's text on status 200, None
\* on another status or an exception.  A page past the end of the listing
\* comes back with no product.
fetch_page(listing, page, outcome) ==
  IF outcome = "error" THEN NoHtml
  ELSE [ok |-> TRUE,
        products |-> IF page <= Len(listing) THEN listing[page] ELSE <<>>]

RECURSIVE parse_products_aborting(_, _)
\* a parse_products whose loop ends at the first price parse_price rejects
parse_products_aborting(products, i) ==
  IF i > Len(products) THEN <<>>
  ELSE LET product == products[i]
           price   == parse_price(product.price_text)
           rest    == parse_products_aborting(products, i + 1)
       IN  IF product.elems # Elements THEN rest
           ELSE IF ~price.valid THEN <<>>
           ELSE IF price.whole < TARGET_PRICE
                THEN <<[title |-> product.title, price |-> price,
                        price_text |-> product.price_text,
                        image_url |-> image_url(product.image)]>> \o rest
                ELSE rest

\* The item's 'timestamp' is written and read by nothing: it is left out.
RECURSIVE parse_products_from(_, _)
parse_products_from(products, i) ==
  IF i > Len(products) THEN <<>>
  ELSE LET product == products[i]
           price   == parse_price(product.price_text)
           rest    == parse_products_from(products, i + 1)
       IN  IF product.elems # Elements THEN rest
           ELSE IF ~price.valid THEN rest
           ELSE IF BelowTarget(price)
                THEN <<[title |-> product.title, price |-> price,
                        price_text |-> product.price_text,
                        image_url |-> image_url(product.image)]>> \o rest
                ELSE rest

parse_products(html) ==
  IF ~html.ok THEN <<>> ELSE parse_products_from(html.products, 1)

(***************************************************************************)
(* DataManager: graphic_cards.json.  The file holds a document, or text    *)
(* that json.load rejects (a file truncated by open(.., 'w') whose dump    *)
(* did not complete).                                                      *)
(***************************************************************************)
NoCards == [k \in {} |-> 0]

EmptyData == [graphic_cards |-> NoCards]

\* what ensure_file_exists writes
NewDataFile == [ok |-> TRUE, doc |-> EmptyData]

BrokenDataFile == [ok |-> FALSE, doc |-> EmptyData]

\* json.JSONDecodeError is caught and answered with the empty document
load_data(file) == IF file.ok THEN file.doc ELSE EmptyData

\* The ways a write can end: done; open() raised and the file is as it
\* was; the file was truncated and the dump raised.  Either exception is
\* logged and swallowed.
SaveOutcomes == {"ok", "open_failed", "write_failed"}

save_data(file, data, outcome) ==
  CASE outcome = "ok"           -> [ok |-> TRUE, doc |-> data]
    [] outcome = "open_failed"  -> file
    [] outcome = "write_failed" -> BrokenDataFile

\* f"{title}_{price}": the text of a float holds no "_", the last "_" of a
\* key parts title from price, and two keys are equal exactly when title
\* and price are; the key is kept as the pair
get_product_key(title, price) == <<title, price>>

(***************************************************************************)
(* compare_products.                                                       *)
(***************************************************************************)
Put(f, key, value) ==
  [k \in DOMAIN f \cup {key} |-> IF k = key THEN value ELSE f[k]]

Without(f, keys) == [k \in DOMAIN f \ keys |-> f[k]]

\* the sequences that list every element of S once
Orderings(S) ==
  {o \in [1..Cardinality(S) -> S] : \A i, j \in DOMAIN o : o[i] = o[j] => i = j}

RECURSIVE classify(_, _, _, _)
\* the loop over current_products, from product i on
classify(current_products, i, now, acc) ==
  IF i > Len(current_products) THEN acc
  ELSE LET product == current_products[i]
           key     == get_product_key(product.title, product.price)
       IN  IF key \notin DOMAIN acc.saved_products
           THEN classify(current_products, i + 1, now,
                  [acc EXCEPT
                     !.current_keys = @ \cup {key},
                     !.new_products = Append(@, product),
                     !.saved_products = Put(@, key,
                        [title |-> product.title, price |-> product.price,
                         price_text |-> product.price_text,
                         image_url |-> product.image_url,
                         first_seen |-> now, last_updated |-> now])])
           ELSE classify(current_products, i + 1, now,
                  [acc EXCEPT
                     !.current_keys = @ \cup {key},
                     !.saved_products[key].last_updated = now,
                     !.updated_products = Append(@, product)])

classified(file, current_products, now) ==
  classify(current_products, 1, now,
           [saved_products |-> load_data(file).graphic_cards,
            current_keys |-> {}, new_products |-> <<>>,
            updated_products |-> <<>>])

\* saved_keys - current_keys; the loop over this set visits it in any order
removed_keys(file, current_products, now) ==
  LET c == classified(file, current_products, now)
  IN  DOMAIN c.saved_products \ c.current_keys

\* The call's result and the file it leaves.  order is the order in which
\* the removed keys are visited, save the way the write ends.
compare_products(file, current_products, now, order, save) ==
  LET c       == classified(file, current_products, now)
      removed == [i \in 1..Len(order) |-> c.saved_products[order[i]]]
  IN  [new |-> c.new_products,
       updated |-> c.updated_products,
       removed |-> removed,
       file |-> save_data(file,
                  [graphic_cards |->
                     Without(c.saved_products,
                             DOMAIN c.saved_products \ c.current_keys)],
                  save)]

(***************************************************************************)
(* NightModeManager: night_mode.json.                                      *)
(***************************************************************************)
\* {"enabled": False}; toggled holds last_toggled_by and last_toggled_at
\* once they are written
DefaultNightMode == [enabled |-> FALSE, toggled |-> <<>>]

NewNightFile == [ok |-> TRUE, doc |-> DefaultNightMode]

BrokenNightFile == [ok |-> FALSE, doc |-> DefaultNightMode]

load_night_mode(file) == IF file.ok THEN file.doc ELSE DefaultNightMode

save_night_mode(file, data, outcome) ==
  CASE outcome = "ok"           -> [ok |-> TRUE, doc |-> data]
    [] outcome = "open_failed"  -> file
    [] outcome = "write_failed" -> BrokenNightFile

is_night_mode_enabled(file) == load_night_mode(file).enabled

\* the document toggle_night_mode saves; its enabled is the value returned
toggled_night_mode(file, user_id, t) ==
  [enabled |-> ~load_night_mode(file).enabled, toggled |-> <<user_id, t>>]

\* datetime.now().time()
time_of_day(t) == t % MINUTES_PER_DAY

\* is_night_time with night_end left out of the window
is_night_time_open_end(t) ==
  night_start <= time_of_day(t) /\ time_of_day(t) < night_end

is_night_time(t) ==
  night_start <= time_of_day(t) /\ time_of_day(t) <= night_end

should_send_notifications(file, t) ==
  IF ~is_night_mode_enabled(file) THEN TRUE
  ELSE IF is_night_time(t) THEN FALSE
  ELSE TRUE

(***************************************************************************)
(* SubscriptionManager: subscriptions.json.                                *)
(***************************************************************************)
NoSubscriptions == [users |-> <<>>]

NewSubsFile == [ok |-> TRUE, doc |-> NoSubscriptions]

BrokenSubsFile == [ok |-> FALSE, doc |-> NoSubscriptions]

load_subscriptions(file) == IF file.ok THEN file.doc ELSE NoSubscriptions

\* not guarded: the exception of a failed write reaches the caller
save_subscriptions(file, data, outcome) ==
  CASE outcome = "ok"           -> [ok |-> TRUE, doc |-> data]
    [] outcome = "open_failed"  -> file
    [] outcome = "write_failed" -> BrokenSubsFile

get_all_users(file) == load_subscriptions(file).users

Range(seq) == {seq[i] : i \in DOMAIN seq}

\* add_user: the value returned ("raised" when the write raised) and the file
add_user(file, user_id, outcome) ==
  LET data == load_subscriptions(file)
  IN  IF user_id \notin Range(data.users)
      THEN [returned |-> IF outcome = "ok" THEN "True" ELSE "raised",
            file |-> save_subscriptions(file,
                       [users |-> Append(data.users, user_id)], outcome)]
      ELSE [returned |-> "False", file |-> file]

(***************************************************************************)
(* State.                                                                  *)
(***************************************************************************)
VARIABLES
  now,          \* datetime.now(), minutes since the start (midnight)
  site,         \* the listing the shop shows
  site_changes, \* how often it changed
  data_file,    \* graphic_cards.json
  night_file,   \* night_mode.json
  subs_file,    \* subscriptions.json
  sched,        \* scheduled_task: where it is, and its locals
  manual,       \* the handler being dispatched: check_now's place and locals
  faults,       \* failures injected so far
  cycles,       \* cycles started so far
  commands,     \* other commands handled so far
  sent,         \* photos delivered, per <<user, key, message_type>>
  entered,      \* per key: how often it came into the stored document
  left,         \* per key: how often it went out of the stored document
  last_call,    \* the latest call of compare_products
  prev_call,    \* the call before it
  returned      \* what the latest toggle_night_mode, add_user or parse_price
                \* returned, or that check_now refused its user

vars == <<now, site, site_changes, data_file, night_file, subs_file, sched,
          manual, faults, cycles, commands, sent, entered, left, last_call,
          prev_call, returned>>

(***************************************************************************)
(* The files.  Each manager opens the file named by its filename; a write  *)
(* replaces that file and no other.                                        *)
(***************************************************************************)
DATA_FILE == "graphic_cards.json"

NIGHT_MODE_FILE == "night_mode.json"

SUBSCRIPTIONS_FILE == "subscriptions.json"

\* a NightModeManager that was given the DataManager's filename
misdirected_filename == "graphic_cards.json"

\* self.filename of data_manager, night_mode_manager, subscription_manager
data_filename == DATA_FILE

night_mode_filename == NIGHT_MODE_FILE

subscriptions_filename == SUBSCRIPTIONS_FILE

\* open(filename, 'w') and what it leaves in the file
Written(filename, file) ==
  /\ data_file' = IF filename = DATA_FILE THEN file ELSE data_file
  /\ night_file' = IF filename = NIGHT_MODE_FILE THEN file ELSE night_file
  /\ subs_file' = IF filename = SUBSCRIPTIONS_FILE THEN file ELSE subs_file

Kinds == {"new", "removed"}

\* every key a product of the catalogue can get
AllKeys ==
  {get_product_key(p.title, p.price) :
     p \in Range(parse_products([ok |-> TRUE, products |-> Catalogue]))}

NoCall ==
  [n |-> 0, by |-> "none", snapshot |-> <<>>, truncated |-> FALSE,
   new |-> <<>>, updated |-> <<>>, removed |-> <<>>,
   before |-> NewDataFile, after |-> NewDataFile, at |-> 0]

\* nothing returned yet.  before is the file the call found and first the
\* file the call before it found.
NoResult ==
  [of |-> "none", n |-> 0, user_id |-> "nobody", value |-> "None",
   before |-> NewNightFile, first |-> NewNightFile]

\* the n-th call in a row of one method, what it returned and the files
Result(of, user_id, value, before) ==
  [of |-> of, n |-> IF returned.of = of THEN returned.n + 1 ELSE 1,
   user_id |-> user_id, value |-> value, before |-> before,
   first |-> IF returned.of = of THEN returned.before ELSE before]

\* scheduled_task entering its loop
SchedStart ==
  [pc |-> "fetch", page |-> 1, all_products |-> <<>>, users |-> <<>>,
   new |-> <<>>, removed |-> <<>>, ui |-> 1, idx |-> 1,
   sleep |-> 0, failed |-> FALSE,
   gate |-> "none", detected |-> {}, notified |-> {}]

ManualIdle ==
  [pc |-> "idle", user |-> "nobody", page |-> 1, all_products |-> <<>>,
   new |-> <<>>, removed |-> <<>>, idx |-> 1]

Init ==
  /\ now = night_end
  /\ site = FullListing
  /\ site_changes = 0
  /\ data_file = NewDataFile
  /\ night_file = NewNightFile
  /\ subs_file = NewSubsFile
  /\ sched = SchedStart
  /\ manual = ManualIdle
  /\ faults = 0
  /\ cycles = 1
  /\ commands = 0
  /\ sent = [m \in Users \X AllKeys \X Kinds |-> 0]
  /\ entered = [k \in AllKeys |-> 0]
  /\ left = [k \in AllKeys |-> 0]
  /\ last_call = NoCall
  /\ prev_call = NoCall
  /\ returned = NoResult

(***************************************************************************)
(* The environment: time passes, the shop changes, requests and writes     *)
(* fail.                                                                   *)
(***************************************************************************)
Tick ==
  /\ \E d \in ClockSteps : now + d <= MaxNow /\ now' = now + d
  /\ UNCHANGED <<site, site_changes, data_file, night_file, subs_file, sched,
                 manual, faults, cycles, sent, entered, left, last_call,
                 prev_call, commands,
                 returned>>

SiteChange ==
  /\ site_changes < MaxSiteChanges
  /\ site' \in Listings \ {site}
  /\ site_changes' = site_changes + 1
  /\ UNCHANGED <<now, data_file, night_file, subs_file, sched, manual,
                 faults, cycles, sent, entered, left, last_call, prev_call, commands,
                 returned>>

FetchOutcomes == {"ok", "error"}

\* open() for reading: done, or an OSError that load_data does not catch
LoadOutcomes == {"ok", "raise"}

SendOutcomes == {"ok", "fail"}

Cost(outcome) == IF outcome = "ok" THEN 0 ELSE 1

Spend(n) == faults + n <= MaxFaults /\ faults' = faults + n

(***************************************************************************)
(* parse_all_pages: one pass of its loop.                                  *)
(***************************************************************************)
\* the responses a request can get
\* price texts with nothing to convert: no digit, and separators only
RawWords == [title |-> "F", price_text |-> <<"n", "e", "t">>,
             image |-> "/f.png", elems |-> Elements]

RawDots == [title |-> "G", price_text |-> <<",", ".">>,
            image |-> "/g.png", elems |-> Elements]

\* the product elements a page of the parse harness is made of
ParseElements == Range(Catalogue) \cup {RawWords, RawDots}

Pages == UNION {[1..n -> ParseElements] : n \in 1..MaxItems}

\* the one-page listings of the parse harness
ParseListings == {<<page>> : page \in Pages}

Responses ==
  UNION {{fetch_page(listing, page, outcome) :
            page \in 1..(Len(listing) + 1), outcome \in FetchOutcomes} :
         listing \in Listings \cup ParseListings}

\* parse_products of each response, tabulated
Parsed == [html \in Responses |-> parse_products(html)]

fetch_step(listing, page, all_products, outcome) ==
  LET html     == fetch_page(listing, page, outcome)
      products == Parsed[html]
  IN  IF ~html.ok
      THEN [done |-> TRUE, failed |-> TRUE, page |-> page,
            all_products |-> all_products]
      ELSE IF products = <<>>
      THEN [done |-> TRUE, failed |-> FALSE, page |-> page,
            all_products |-> all_products]
      ELSE [done |-> FALSE, failed |-> FALSE, page |-> page + 1,
            all_products |-> all_products \o products]

(***************************************************************************)
(* A call of compare_products and what it leaves behind.                   *)
(***************************************************************************)
StoredKeys(file) == DOMAIN load_data(file).graphic_cards

KeyOf(product) == get_product_key(product.title, product.price)

\* the changes a result reports, as <<key, message_type>>
ChangesOf(r) ==
  {<<KeyOf(r.new[i]), "new">> : i \in DOMAIN r.new}
    \cup {<<KeyOf(r.removed[i]), "removed">> : i \in DOMAIN r.removed}

Reconciled(by, products, truncated, order, save) ==
  \E r \in {compare_products(data_file, products, now, order, save)} :
      /\ Written(data_filename, r.file)
      /\ entered' = [k \in AllKeys |->
                       IF k \notin StoredKeys(data_file) /\ k \in StoredKeys(r.file)
                       THEN entered[k] + 1 ELSE entered[k]]
      /\ left' = [k \in AllKeys |->
                    IF k \in StoredKeys(data_file) /\ k \notin StoredKeys(r.file)
                    THEN left[k] + 1 ELSE left[k]]
      /\ last_call' = [n |-> last_call.n + 1, by |-> by, snapshot |-> products,
                       truncated |-> truncated, new |-> r.new,
                       updated |-> r.updated, removed |-> r.removed,
                       before |-> data_file, after |-> r.file, at |-> now]

\* what a finished call leaves of the locals
NORMAL_SLEEP == CHECK_INTERVAL_HOURS * 3600

\* Asleep for a loop without its except branch: the exception ends the task
AsleepOrExited(s, seconds, failed) ==
  [s EXCEPT !.pc = IF failed THEN "exited" ELSE "sleeping",
            !.sleep = seconds, !.failed = failed,
            !.page = 1, !.all_products = <<>>, !.new = <<>>,
            !.removed = <<>>, !.ui = 1, !.idx = 1]

Asleep(s, seconds, failed) ==
  [s EXCEPT !.pc = "sleeping", !.sleep = seconds, !.failed = failed,
            !.page = 1, !.all_products = <<>>, !.new = <<>>,
            !.removed = <<>>, !.ui = 1, !.idx = 1]

\* the messages one user is sent: the new products, then the removed ones
Outbox(new, removed) ==
  [i \in 1..(Len(new) + Len(removed)) |->
     IF i <= Len(new)
     THEN [product |-> new[i], message_type |-> "new"]
     ELSE [product |-> removed[i - Len(new)], message_type |-> "removed"]]

\* a send_product_message that sends to every chat instead of chat_id
broadcast_product_message(user_id, item, outcome) ==
  IF outcome = "ok"
  THEN [m \in DOMAIN sent |->
          IF m[2] = KeyOf(item.product) /\ m[3] = item.message_type
          THEN sent[m] + 1 ELSE sent[m]]
  ELSE sent

\* send_product_message: bot.send_photo delivers, or raises and is logged
send_product_message(user_id, item, outcome) ==
  IF outcome = "ok"
  THEN [sent EXCEPT ![<<user_id, KeyOf(item.product), item.message_type>>] = @ + 1]
  ELSE sent

(***************************************************************************)
(* scheduled_task.                                                         *)
(***************************************************************************)
\* The cycle's own fetch.  On the last page compare_products runs and
\* send_notifications starts: its night mode check, its subscribers.
SchedFetch ==
  /\ sched.pc = "fetch"
  /\ \E outcome \in FetchOutcomes, load \in LoadOutcomes, save \in SaveOutcomes :
       LET f == fetch_step(site, sched.page, sched.all_products, outcome)
       IN  IF ~f.done
           THEN /\ load = "ok" /\ save = "ok"
                /\ Spend(Cost(outcome))
                /\ sched' = [sched EXCEPT !.page = f.page,
                                          !.all_products = f.all_products]
                /\ UNCHANGED <<data_file, night_file, subs_file, entered, left,
                            last_call>>
           ELSE IF load = "raise"
           THEN \* except Exception of scheduled_task
                /\ save = "ok"
                /\ Spend(Cost(outcome) + 1)
                /\ sched' = Asleep(sched, BACKOFF_SECONDS, TRUE)
                /\ UNCHANGED <<data_file, night_file, subs_file, entered, left,
                            last_call>>
           ELSE \E order \in Orderings(removed_keys(data_file, f.all_products, now)) :
                LET r     == compare_products(data_file, f.all_products, now,
                                              order, save)
                    users == get_all_users(subs_file)
                    seen  == [sched EXCEPT !.detected = @ \cup ChangesOf(r)]
                IN  /\ Spend(Cost(outcome) + Cost(save))
                    /\ Reconciled("scheduled_task", f.all_products, f.failed,
                                  order, save)
                    /\ sched' =
                         IF ~should_send_notifications(night_file, now)
                         THEN Asleep([seen EXCEPT !.gate = "closed"],
                                     NORMAL_SLEEP, FALSE)
                         ELSE IF users = <<>>
                         THEN Asleep([seen EXCEPT !.gate = "open"],
                                     NORMAL_SLEEP, FALSE)
                         ELSE [seen EXCEPT !.pc = "notify_fetch", !.page = 1,
                                           !.all_products = <<>>,
                                           !.gate = "open", !.users = users]
  /\ UNCHANGED <<now, site, site_changes, manual, cycles, sent, prev_call,
                 commands, returned>>

\* send_notifications' fetch, its compare_products and its first send
NotifyFetch ==
  /\ sched.pc = "notify_fetch"
  /\ \E outcome \in FetchOutcomes, load \in LoadOutcomes, save \in SaveOutcomes :
       LET f == fetch_step(site, sched.page, sched.all_products, outcome)
       IN  IF ~f.done
           THEN /\ load = "ok" /\ save = "ok"
                /\ Spend(Cost(outcome))
                /\ sched' = [sched EXCEPT !.page = f.page,
                                          !.all_products = f.all_products]
                /\ UNCHANGED <<data_file, night_file, subs_file, entered, left,
                            last_call>>
           ELSE IF load = "raise"
           THEN \* except Exception of send_notifications
                /\ save = "ok"
                /\ Spend(Cost(outcome) + 1)
                /\ sched' = Asleep(sched, NORMAL_SLEEP, FALSE)
                /\ UNCHANGED <<data_file, night_file, subs_file, entered, left,
                            last_call>>
           ELSE \E order \in Orderings(removed_keys(data_file, f.all_products, now)) :
                LET r    == compare_products(data_file, f.all_products, now,
                                             order, save)
                    seen == [sched EXCEPT !.detected = @ \cup ChangesOf(r)]
                IN  /\ Spend(Cost(outcome) + Cost(save))
                    /\ Reconciled("send_notifications", f.all_products,
                                  f.failed, order, save)
                    /\ sched' =
                         IF r.new = <<>> /\ r.removed = <<>>
                         THEN Asleep(seen, NORMAL_SLEEP, FALSE)
                         ELSE [seen EXCEPT !.pc = "send", !.page = 1,
                                           !.all_products = <<>>,
                                           !.new = r.new, !.removed = r.removed,
                                           !.ui = 1, !.idx = 1]
  /\ UNCHANGED <<now, site, site_changes, manual, cycles, sent, prev_call,
                 commands, returned>>

\* one send_product_message of send_notifications' loops
SchedSend ==
  /\ sched.pc = "send"
  /\ \E outcome \in SendOutcomes :
       LET outbox  == Outbox(sched.new, sched.removed)
           user_id == sched.users[sched.ui]
           item    == outbox[sched.idx]
       IN  /\ Spend(Cost(outcome))
           /\ sent' = send_product_message(user_id, item, outcome)
           /\ sched' = [sched EXCEPT
                 !.notified = @ \cup {<<user_id, KeyOf(item.product),
                                        item.message_type>>},
                 !.idx = IF sched.idx < Len(outbox) THEN sched.idx + 1 ELSE 1,
                 !.pc = IF sched.idx < Len(outbox) THEN "send" ELSE "summary"]
  /\ UNCHANGED <<now, site, site_changes, data_file, night_file, subs_file,
                 manual, cycles, entered, left, last_call, prev_call, commands,
                 returned>>

\* The user's summary: bot.send_message is not guarded, its exception ends
\* send_notifications.
SchedSummary ==
  /\ sched.pc = "summary"
  /\ \E outcome \in SendOutcomes :
       /\ Spend(Cost(outcome))
       /\ sched' = IF outcome = "ok" /\ sched.ui < Len(sched.users)
                   THEN [sched EXCEPT !.pc = "send", !.ui = @ + 1, !.idx = 1]
                   ELSE Asleep(sched, NORMAL_SLEEP, FALSE)
  /\ UNCHANGED <<now, site, site_changes, data_file, night_file, subs_file,
                 manual, cycles, sent, entered, left, last_call, prev_call, commands,
                 returned>>

\* asyncio.sleep returns and the loop starts over
Wake ==
  /\ sched.pc = "sleeping"
  /\ cycles < MaxCycles
  /\ cycles' = cycles + 1
  /\ sched' = SchedStart
  /\ UNCHANGED <<now, site, site_changes, data_file, night_file, subs_file,
                 manual, faults, sent, entered, left, last_call, prev_call, commands,
                 returned>>

(***************************************************************************)
(* The handlers.  The Application dispatches one update at a time: a       *)
(* handler starts when none is running.                                    *)
(***************************************************************************)
\* a check_now that takes every user for a subscriber
anyone_subscribed(user_id, file) == user_id \in Users

\* user_id in subscription_manager.get_all_users()
subscribed(user_id, file) == user_id \in Range(get_all_users(file))

\* check_now, up to its first request; a user who is not subscribed is
\* told so and nothing else happens
CheckNow ==
  /\ manual.pc = "idle"
  /\ \E user_id \in Users :
       IF ~subscribed(user_id, subs_file)
       THEN /\ commands < MaxCommands
            /\ commands' = commands + 1
            /\ returned' = Result("check_now", user_id, "not_subscribed",
                                  subs_file)
            /\ UNCHANGED <<manual, cycles>>
       ELSE /\ cycles < MaxCycles
            /\ cycles' = cycles + 1
            /\ manual' = [ManualIdle EXCEPT !.pc = "fetch", !.user = user_id]
            /\ UNCHANGED <<commands, returned>>
  /\ UNCHANGED <<now, site, site_changes, data_file, night_file, subs_file,
                 sched, faults, sent, entered, left, last_call, prev_call>>

\* check_now's fetch and, on the last page, its compare_products
ManualFetch ==
  /\ manual.pc = "fetch"
  /\ \E outcome \in FetchOutcomes, load \in LoadOutcomes, save \in SaveOutcomes :
       LET f == fetch_step(site, manual.page, manual.all_products, outcome)
       IN  IF ~f.done
           THEN /\ load = "ok" /\ save = "ok"
                /\ Spend(Cost(outcome))
                /\ manual' = [manual EXCEPT !.page = f.page,
                                            !.all_products = f.all_products]
                /\ UNCHANGED <<data_file, night_file, subs_file, entered, left,
                            last_call>>
           ELSE IF load = "raise"
           THEN \* the exception ends the handler
                /\ save = "ok"
                /\ Spend(Cost(outcome) + 1)
                /\ manual' = ManualIdle
                /\ UNCHANGED <<data_file, night_file, subs_file, entered, left,
                            last_call>>
           ELSE \E order \in Orderings(removed_keys(data_file, f.all_products, now)) :
                LET r == compare_products(data_file, f.all_products, now,
                                          order, save)
                IN  /\ Spend(Cost(outcome) + Cost(save))
                    /\ Reconciled("check_now", f.all_products, f.failed,
                                  order, save)
                    /\ manual' = [manual EXCEPT
                         !.pc = IF r.new = <<>> /\ r.removed = <<>>
                                THEN "reply" ELSE "send",
                         !.page = 1, !.all_products = <<>>,
                         !.new = r.new, !.removed = r.removed, !.idx = 1]
  /\ UNCHANGED <<now, site, site_changes, sched, cycles, commands, sent,
                 prev_call, returned>>

\* one send_product_message of check_now's loops
ManualSend ==
  /\ manual.pc = "send"
  /\ \E outcome \in SendOutcomes :
       LET outbox == Outbox(manual.new, manual.removed)
           item   == outbox[manual.idx]
       IN  /\ Spend(Cost(outcome))
           /\ sent' = send_product_message(manual.user, item, outcome)
           /\ manual' = [manual EXCEPT
                 !.idx = IF manual.idx < Len(outbox) THEN manual.idx + 1 ELSE 1,
                 !.pc = IF manual.idx < Len(outbox) THEN "send" ELSE "reply"]
  /\ UNCHANGED <<now, site, site_changes, data_file, night_file, subs_file,
                 sched, cycles, commands, entered, left, last_call, prev_call,
                 returned>>

\* check_now's closing summary; the handler returns
ManualReply ==
  /\ manual.pc = "reply"
  /\ manual' = ManualIdle
  /\ UNCHANGED <<now, site, site_changes, data_file, night_file, subs_file,
                 sched, faults, cycles, commands, sent, entered, left,
                 last_call, prev_call,
                 returned>>

\* start_mail: an exception of the write ends the handler before its reply
StartMail ==
  /\ manual.pc = "idle"
  /\ commands < MaxCommands
  /\ commands' = commands + 1
  /\ \E user_id \in Users, save \in SaveOutcomes :
       LET a == add_user(subs_file, user_id, save)
       IN  /\ a.returned = "False" => save = "ok"
           /\ Spend(Cost(save))
           /\ Written(subscriptions_filename, a.file)
           /\ returned' = Result("add_user", user_id, a.returned, subs_file)
  /\ UNCHANGED <<now, site, site_changes, sched, manual, cycles, sent,
                 entered, left, last_call, prev_call>>

\* night_mode
NightMode ==
  /\ manual.pc = "idle"
  /\ commands < MaxCommands
  /\ commands' = commands + 1
  /\ \E user_id \in NightModeUsers, save \in SaveOutcomes :
       LET data == toggled_night_mode(night_file, user_id, now)
       IN  /\ Spend(Cost(save))
           /\ Written(night_mode_filename,
                      save_night_mode(night_file, data, save))
           /\ returned' = Result("toggle_night_mode", user_id, data.enabled,
                                 night_file)
  /\ UNCHANGED <<now, site, site_changes, sched, manual, cycles, sent,
                 entered, left, last_call, prev_call>>

\* stats: reads graphic_cards.json and night_mode.json, writes nothing
Stats ==
  /\ manual.pc = "idle"
  /\ UNCHANGED <<now, site, site_changes, data_file, night_file, subs_file,
                 sched, manual, faults, cycles, commands, sent, entered,
                 left, last_call, prev_call,
                 returned>>

Next ==
  \/ Tick
  \/ SiteChange
  \/ SchedFetch
  \/ NotifyFetch
  \/ SchedSend
  \/ SchedSummary
  \/ Wake
  \/ CheckNow
  \/ ManualFetch
  \/ ManualSend
  \/ ManualReply
  \/ StartMail
  \/ NightMode
  \/ Stats

Spec == Init /\ [][Next]_vars

(***************************************************************************)
(* compare_products on its own: any stored document the program can have   *)
(* written, any snapshot of up to MaxLen items, called MaxCalls times.     *)
(***************************************************************************)
HarnessItems == Range(parse_products([ok |-> TRUE, products |-> Catalogue]))

Snapshots == UNION {[1..n -> HarnessItems] : n \in 0..MaxLen}

\* the files a call at time 0 leaves
HarnessFiles ==
  {compare_products(NewDataFile, snapshot, 0, <<>>, "ok").file :
     snapshot \in Snapshots}

InitReconcile ==
  /\ now = night_end
  /\ site = FullListing
  /\ site_changes = 0
  /\ data_file \in HarnessFiles
  /\ night_file = NewNightFile
  /\ subs_file = NewSubsFile
  /\ sched = SchedStart
  /\ manual = ManualIdle
  /\ faults = 0
  /\ cycles = 1
  /\ commands = 0
  /\ sent = [m \in Users \X AllKeys \X Kinds |-> 0]
  /\ entered = [k \in AllKeys |-> 0]
  /\ left = [k \in AllKeys |-> 0]
  /\ last_call = NoCall
  /\ prev_call = NoCall
  /\ returned = NoResult

ReconcileCall ==
  /\ last_call.n < MaxCalls
  /\ \E snapshot \in Snapshots, save \in SaveOutcomes :
       \E order \in Orderings(removed_keys(data_file, snapshot, now)) :
         /\ Spend(Cost(save))
         /\ Reconciled("harness", snapshot, FALSE, order, save)
  /\ prev_call' = last_call
  /\ UNCHANGED <<now, site, site_changes, sched, manual, cycles, commands,
                 sent, returned>>

NextReconcile == ReconcileCall \/ Tick

SpecReconcile == InitReconcile /\ [][NextReconcile]_vars

(***************************************************************************)
(* should_send_notifications on its own: any night mode file, any minute   *)
(* of a day and of the next morning.                                       *)
(***************************************************************************)
NightFiles ==
  {NewNightFile, BrokenNightFile}
    \cup {[ok |-> TRUE, doc |-> toggled_night_mode(f, u, 0)] :
            f \in {NewNightFile,
                   [ok |-> TRUE, doc |-> toggled_night_mode(NewNightFile, "u1", 0)]},
            u \in Users}

InitNight ==
  /\ now \in 0..(MINUTES_PER_DAY + night_end + 1)
  /\ site = FullListing
  /\ site_changes = 0
  /\ data_file = NewDataFile
  /\ night_file \in NightFiles
  /\ subs_file = NewSubsFile
  /\ sched = SchedStart
  /\ manual = ManualIdle
  /\ faults = 0
  /\ cycles = 1
  /\ commands = 0
  /\ sent = [m \in Users \X AllKeys \X Kinds |-> 0]
  /\ entered = [k \in AllKeys |-> 0]
  /\ left = [k \in AllKeys |-> 0]
  /\ last_call = NoCall
  /\ prev_call = NoCall
  /\ returned = NoResult

\* the first statement of send_notifications
NightGate ==
  /\ sched.gate = "none"
  /\ sched' = [sched EXCEPT !.gate =
                 IF should_send_notifications(night_file, now)
                 THEN "open" ELSE "closed"]
  /\ UNCHANGED <<now, site, site_changes, data_file, night_file, subs_file,
                 manual, faults, cycles, commands, sent, entered, left,
                 last_call, prev_call,
                 returned>>

NextNight == NightGate

SpecNight == InitNight /\ [][NextNight]_vars

(***************************************************************************)
(* toggle_night_mode on its own: any night mode file, MaxCalls calls.      *)
(***************************************************************************)
InitToggle ==
  /\ now = night_end
  /\ site = FullListing
  /\ site_changes = 0
  /\ data_file = NewDataFile
  /\ night_file \in NightFiles
  /\ subs_file = NewSubsFile
  /\ sched = SchedStart
  /\ manual = ManualIdle
  /\ faults = 0
  /\ cycles = 1
  /\ commands = 0
  /\ sent = [m \in Users \X AllKeys \X Kinds |-> 0]
  /\ entered = [k \in AllKeys |-> 0]
  /\ left = [k \in AllKeys |-> 0]
  /\ last_call = NoCall
  /\ prev_call = NoCall
  /\ returned = NoResult

ToggleCall ==
  /\ returned.n < MaxCalls
  /\ \E user_id \in Users, save \in SaveOutcomes :
       LET data == toggled_night_mode(night_file, user_id, now)
       IN  /\ Spend(Cost(save))
           /\ Written(night_mode_filename,
                      save_night_mode(night_file, data, save))
           /\ returned' = Result("toggle_night_mode", user_id, data.enabled,
                                 night_file)
  /\ UNCHANGED <<now, site, site_changes, sched, manual, cycles, commands,
                 sent, entered, left, last_call, prev_call>>

NextToggle == ToggleCall \/ Tick

SpecToggle == InitToggle /\ [][NextToggle]_vars

(***************************************************************************)
(* add_user on its own: any subscriptions file, MaxCalls calls.            *)
(***************************************************************************)
\* the files add_user can have written, and one that json.load rejects
SubsFiles ==
  {BrokenSubsFile}
    \cup {[ok |-> TRUE, doc |-> [users |-> o]] :
            o \in UNION {Orderings(S) : S \in SUBSET Users}}

InitSubscribe ==
  /\ now = night_end
  /\ site = FullListing
  /\ site_changes = 0
  /\ data_file = NewDataFile
  /\ night_file = NewNightFile
  /\ subs_file \in SubsFiles
  /\ sched = SchedStart
  /\ manual = ManualIdle
  /\ faults = 0
  /\ cycles = 1
  /\ commands = 0
  /\ sent = [m \in Users \X AllKeys \X Kinds |-> 0]
  /\ entered = [k \in AllKeys |-> 0]
  /\ left = [k \in AllKeys |-> 0]
  /\ last_call = NoCall
  /\ prev_call = NoCall
  /\ returned = NoResult

AddUserCall ==
  /\ returned.n < MaxCalls
  /\ \E user_id \in Users, save \in SaveOutcomes :
       LET a == add_user(subs_file, user_id, save)
       IN  /\ a.returned = "False" => save = "ok"
           /\ Spend(Cost(save))
           /\ Written(subscriptions_filename, a.file)
           /\ returned' = Result("add_user", user_id, a.returned, subs_file)
  /\ UNCHANGED <<now, site, site_changes, sched, manual, cycles, commands,
                 sent, entered, left, last_call, prev_call>>

NextSubscribe == AddUserCall \/ Tick

SpecSubscribe == InitSubscribe /\ [][NextSubscribe]_vars

(***************************************************************************)
(* scheduled_task on its own, with the shop changing and users            *)
(* subscribing.  The event loop runs a task that is ready: each step of    *)
(* the loop is taken once it can be.                                       *)
(***************************************************************************)
NextSched ==
  \/ SiteChange
  \/ SchedFetch
  \/ NotifyFetch
  \/ SchedSend
  \/ SchedSummary
  \/ Wake
  \/ StartMail

\* the step of scheduled_task that its place in the loop allows
SchedStep == SchedFetch \/ NotifyFetch \/ SchedSend \/ SchedSummary \/ Wake

SpecSched == Init /\ [][NextSched]_vars /\ WF_vars(SchedStep)

(***************************************************************************)
(* parse_products on its own: the first cycle of scheduled_task, with no   *)
(* subscriber, over each one-page listing.                                 *)
(***************************************************************************)
InitParse ==
  /\ now = night_end
  /\ site \in ParseListings
  /\ site_changes = 0
  /\ data_file = NewDataFile
  /\ night_file = NewNightFile
  /\ subs_file = NewSubsFile
  /\ sched = SchedStart
  /\ manual = ManualIdle
  /\ faults = 0
  /\ cycles = 1
  /\ commands = 0
  /\ sent = [m \in Users \X AllKeys \X Kinds |-> 0]
  /\ entered = [k \in AllKeys |-> 0]
  /\ left = [k \in AllKeys |-> 0]
  /\ last_call = NoCall
  /\ prev_call = NoCall
  /\ returned = NoResult

NextParse == SchedFetch

SpecParse == InitParse /\ [][NextParse]_vars

(***************************************************************************)
(* parse_price on its own: the shop shows one product, whose price text is *)
(* any short text over digits, separators, a space and a letter, or one of *)
(* two longer texts.                                                       *)
(***************************************************************************)
PriceChars == {"0", "1", "5", ",", ".", " ", "p"}

\* '1 234,50 p.' and '1 234.50 p.'
LongComma == <<"1", " ", "2", "3", "4", ",", "5", "0", " ", "p", ".">>

LongPeriod == <<"1", " ", "2", "3", "4", ".", "5", "0", " ", "p", ".">>

PriceTexts ==
  UNION {[1..n -> PriceChars] : n \in 0..MaxText} \cup {LongComma, LongPeriod}

PriceElement(price_text) ==
  [title |-> "T", price_text |-> price_text, image |-> "/t.png",
   elems |-> Elements]

InitPrice ==
  /\ now = night_end
  /\ site \in {<< <<PriceElement(price_text)>> >> : price_text \in PriceTexts}
  /\ site_changes = 0
  /\ data_file = NewDataFile
  /\ night_file = NewNightFile
  /\ subs_file = NewSubsFile
  /\ sched = SchedStart
  /\ manual = ManualIdle
  /\ faults = 0
  /\ cycles = 1
  /\ commands = 0
  /\ sent = [m \in Users \X AllKeys \X Kinds |-> 0]
  /\ entered = [k \in AllKeys |-> 0]
  /\ left = [k \in AllKeys |-> 0]
  /\ last_call = NoCall
  /\ prev_call = NoCall
  /\ returned = NoResult

\* parse_price(price_text) of parse_products, and what it returns
PriceCall ==
  /\ returned.n < 1
  /\ returned' = Result("parse_price", "nobody",
                        parse_price(site[1][1].price_text), NewNightFile)
  /\ UNCHANGED <<now, site, site_changes, data_file, night_file, subs_file,
                 sched, manual, faults, cycles, commands, sent, entered,
                 left, last_call, prev_call>>

NextPrice == PriceCall

SpecPrice == InitPrice /\ [][NextPrice]_vars

(***************************************************************************)
(* What the claims read off the state.                                     *)
(***************************************************************************)
\* a cycle is between its first request and its last send
SchedRunning == sched.pc \in {"fetch", "notify_fetch", "send", "summary"}

ManualRunning == manual.pc \in {"fetch", "send"}

\* the persisted night mode flag, and the clock inside 00:00..08:00
QuietEnabled == night_file.ok /\ night_file.doc.enabled

InQuietWindow == time_of_day(now) >= 0 /\ time_of_day(now) <= 8 * 60

\* the identities of a sequence of items or records
Identities(items) == {<<items[i].title, items[i].price>> : i \in DOMAIN items}

Occurrences(items, key) ==
  Cardinality({i \in DOMAIN items : <<items[i].title, items[i].price>> = key})

\* the tracked items a later load of the file finds
Persisted(file) == IF file.ok THEN file.doc.graphic_cards ELSE NoCards

Called == last_call.by # "none"

(***************************************************************************)
(* C1.  At most one cycle is running at any time: a manual check never     *)
(* runs while a scheduled cycle is fetching, reconciling or sending.       *)
(***************************************************************************)
C1_NoOverlap == ~(SchedRunning /\ ManualRunning)

(***************************************************************************)
(* C2.  A scheduled cycle that ends with notifications allowed and with    *)
(* subscribers has called send_product_message, for every subscriber, for  *)
(* every identity its compare_products calls added or removed.  Stated for *)
(* the runs in which no request, file operation or send has failed.        *)
(***************************************************************************)
C2_ChangesDispatched ==
  (faults = 0 /\ sched.pc = "sleeping" /\ ~sched.failed
     /\ sched.gate = "open" /\ sched.users # <<>>)
    => \A change \in sched.detected : \A u \in Range(sched.users) :
         <<u, change[1], change[2]>> \in sched.notified

(***************************************************************************)
(* C3.  compare_products is never called with the snapshot of a fetch that *)
(* a transport error ended.                                                *)
(***************************************************************************)
C3_NoPartialReconcile == Called => ~last_call.truncated

(***************************************************************************)
(* C4.  No product message is delivered while night mode is enabled and    *)
(* the clock is inside 00:00..08:00.  Stated for the runs in which no      *)
(* request, file operation or send has failed.                             *)
(***************************************************************************)
C4_QuietSilence ==
  [][(faults = 0 /\ sent' # sent) => ~(QuietEnabled /\ InQuietWindow)]_vars

(***************************************************************************)
(* C5.  A scheduled cycle whose compare_products finds an added item      *)
(* while night mode is enabled and the clock is in the window has the item *)
(* in the stored document when the call returns, and sends nothing.        *)
(***************************************************************************)
C5_QuietGatesOnlyNotify ==
  (last_call.by = "scheduled_task" /\ sched.gate = "closed"
     /\ last_call.new # <<>>)
    => /\ Identities(last_call.new) \subseteq DOMAIN Persisted(last_call.after)
       /\ sched.notified = {}

(***************************************************************************)
(* C6.  should_send_notifications is true whenever night mode is disabled; *)
(* with night mode enabled it is false from 00:00 to 08:00, both included, *)
(* and true at every other time.                                           *)
(***************************************************************************)
C6_ShouldNotify ==
  sched.gate # "none"
    => (sched.gate = "open" <=> (~QuietEnabled \/ ~InQuietWindow))

C6_Witness ==
  /\ sched.gate = "closed"
  /\ QuietEnabled
  /\ time_of_day(now) = 8 * 60

(***************************************************************************)
(* C7.  compare_products classifies by identity: an identity of the        *)
(* snapshot that was not stored is in new once and not in updated; one     *)
(* that was stored is in updated and not in new; removed holds exactly the *)
(* stored records whose identity is not in the snapshot; afterwards the    *)
(* stored identities are the snapshot's.                                   *)
(***************************************************************************)
C7_ClassifiesByIdentity ==
  Called =>
    LET S == Persisted(last_call.before)
        X == last_call.snapshot
    IN  /\ \A k \in Identities(X) \ DOMAIN S :
             /\ Occurrences(last_call.new, k) = 1
             /\ k \notin Identities(last_call.updated)
        /\ \A k \in Identities(X) \cap DOMAIN S :
             /\ k \in Identities(last_call.updated)
             /\ k \notin Identities(last_call.new)
        /\ Range(last_call.removed) = {S[k] : k \in DOMAIN S \ Identities(X)}
        /\ Len(last_call.removed) = Cardinality(DOMAIN S \ Identities(X))
        /\ DOMAIN Persisted(last_call.after) = Identities(X)

(***************************************************************************)
(* C8.  A second call with the snapshot of the call before it returns no   *)
(* new and no removed item and changes nothing in the stored document but  *)
(* last_updated.                                                           *)
(***************************************************************************)
C8_Idempotent ==
  (prev_call.by # "none" /\ last_call.snapshot = prev_call.snapshot) =>
    LET first  == Persisted(prev_call.after)
        second == Persisted(last_call.after)
    IN  /\ last_call.new = <<>>
        /\ last_call.removed = <<>>
        /\ DOMAIN second = DOMAIN first
        /\ \A k \in DOMAIN second :
             [second[k] EXCEPT !.last_updated = 0]
               = [first[k] EXCEPT !.last_updated = 0]

(***************************************************************************)
(* C9.  When compare_products has returned, every item of new is in the    *)
(* stored document under its identity and no record of removed is.         *)
(***************************************************************************)
C9_ResultPersisted ==
  Called =>
    /\ \A i \in DOMAIN last_call.new :
         LET k == <<last_call.new[i].title, last_call.new[i].price>>
         IN  /\ k \in DOMAIN Persisted(last_call.after)
             /\ Persisted(last_call.after)[k].title = last_call.new[i].title
             /\ Persisted(last_call.after)[k].price = last_call.new[i].price
    /\ Identities(last_call.removed) \cap DOMAIN Persisted(last_call.after) = {}

(***************************************************************************)
(* C10.  No duplicate sends: a user who has got a second "new" message     *)
(* about an identity has got no more of them than the identity came into   *)
(* the stored document, and a user who has got a second "removed" message  *)
(* no more than it went out of it.                                         *)
(***************************************************************************)
C10_NoDuplicateSends ==
  \A u \in Users, k \in AllKeys :
    /\ sent[<<u, k, "new">>] > 1 => sent[<<u, k, "new">>] <= entered[k]
    /\ sent[<<u, k, "removed">>] > 1 => sent[<<u, k, "removed">>] <= left[k]

(***************************************************************************)
(* C11.  A send that fails does not end the batch: when send_notifications *)
(* has finished, every message it attempted for one subscriber it has      *)
(* attempted for every subscriber it read at its start.                    *)
(***************************************************************************)
C11_BatchNotAborted ==
  sched.pc = "sleeping" =>
    \A m \in sched.notified : \A u \in Range(sched.users) :
      <<u, m[2], m[3]>> \in sched.notified

(***************************************************************************)
(* C12.  scheduled_task never leaves its loop: a cycle that has started    *)
(* comes to its sleep, whether it completed or raised, and the sleep is    *)
(* followed by the next cycle; the sleep after a cycle that raised is      *)
(* shorter than CHECK_INTERVAL_HOURS, the sleep after a completed one is   *)
(* CHECK_INTERVAL_HOURS.                                                   *)
(***************************************************************************)
C12_LoopNeverExits ==
  /\ [](SchedRunning \/ sched.pc = "sleeping")
  /\ [](sched.pc = "sleeping" =>
          IF sched.failed
          THEN sched.sleep < CHECK_INTERVAL_HOURS * 3600
          ELSE sched.sleep = CHECK_INTERVAL_HOURS * 3600)
  /\ (SchedRunning ~> sched.pc = "sleeping")
  /\ ((sched.pc = "sleeping" /\ cycles < MaxCycles) ~> SchedRunning)

C12_Witness ==
  /\ sched.pc = "fetch"
  /\ cycles = 2
  /\ faults = 1
  /\ last_call.by = "none"

\* the file the call leaves when its write completes
WrittenBy(call) ==
  compare_products(call.before, call.snapshot, call.at, <<>>, "ok").file

\* the call read a file that json.load rejects, or its write did not complete
IOFailed(call) == ~call.before.ok \/ call.after # WrittenBy(call)

(***************************************************************************)
(* C13.  When compare_products has returned, a load of graphic_cards.json  *)
(* finds the document the call wrote or, the write having failed, the      *)
(* document that was there before the call.                                *)
(***************************************************************************)
C13_FailedWriteKeepsStore ==
  Called =>
    \/ load_data(last_call.after) = load_data(WrittenBy(last_call))
    \/ load_data(last_call.after) = load_data(last_call.before)

(***************************************************************************)
(* C14.  A scheduled cycle whose compare_products read an unreadable file  *)
(* or could not write goes no further: it ends as failed and the task      *)
(* sleeps the short backoff.                                               *)
(***************************************************************************)
C14_PersistenceFailureSurfaced ==
  (last_call.by \in {"scheduled_task", "send_notifications"}
     /\ IOFailed(last_call) /\ sched.pc # "fetch")
    => (sched.pc = "sleeping" /\ sched.failed
          /\ sched.sleep = BACKOFF_SECONDS)

(***************************************************************************)
(* C15.  toggle_night_mode returns the negation of the enabled value that  *)
(* was stored, a read after it gives the value returned, and the second of *)
(* two calls in a row leaves the value that was stored before the first.   *)
(***************************************************************************)
C15_ToggleFlips ==
  returned.of = "toggle_night_mode" =>
    /\ returned.value = ~is_night_mode_enabled(returned.before)
    /\ is_night_mode_enabled(night_file) = returned.value
    /\ returned.n >= 2 =>
         is_night_mode_enabled(night_file) = is_night_mode_enabled(returned.first)

(***************************************************************************)
(* C16.  graphic_cards.json changes only in a step that is a call of       *)
(* compare_products: a step in which toggle_night_mode or add_user         *)
(* returns, or in which a message is sent, or any other step that is not   *)
(* such a call, leaves the file as it was.                                 *)
(***************************************************************************)
C16_OnlyReconcileWrites ==
  [][/\ (returned'.of # returned.of \/ returned'.n # returned.n)
          => data_file' = data_file
     /\ sent' # sent => data_file' = data_file
     /\ data_file' # data_file =>
          /\ last_call'.n = last_call.n + 1
          /\ last_call'.before = data_file
          /\ last_call'.after = data_file']_vars

\* the store holds records, the night mode was switched on by the last
\* command and a message was sent
C16_Witness ==
  /\ Persisted(data_file) # NoCards
  /\ returned.of = "toggle_night_mode"
  /\ QuietEnabled
  /\ \E m \in DOMAIN sent : sent[m] > 0

(***************************************************************************)
(* C17.  add_user for a user already in the list returns False and leaves  *)
(* the list as it was; add_user for a user not in the list returns True    *)
(* and the list then holds the user as well; the list never holds a user   *)
(* twice.                                                                  *)
(***************************************************************************)
C17_AddUserIdempotent ==
  returned.of = "add_user" =>
    LET before == get_all_users(returned.before)
        after == get_all_users(subs_file)
    IN  /\ returned.user_id \in Range(before) =>
             (returned.value = "False" /\ after = before)
        /\ returned.user_id \notin Range(before) =>
             /\ returned.value = "True"
             /\ Range(after) = Range(before) \cup {returned.user_id}
        /\ Cardinality(Range(after)) = Len(after)

(***************************************************************************)
(* C18.  Every step of check_now leaves scheduled_task where it is, its    *)
(* pending sleep included, and every message such a step sends goes to the *)
(* user who sent the command.                                              *)
(***************************************************************************)
C18_ManualAddressed ==
  [][manual' # manual =>
       /\ sched' = sched
       /\ \A m \in DOMAIN sent : sent'[m] # sent[m] => m[1] = manual.user]_vars

\* check_now has sent its changes to its user while a second user is
\* subscribed and has received nothing, and scheduled_task is asleep
C18_Witness ==
  /\ manual.pc = "reply"
  /\ manual.new # <<>>
  /\ Len(get_all_users(subs_file)) = 2
  /\ sched.pc = "sleeping"
  /\ \E m \in DOMAIN sent : m[1] = manual.user /\ sent[m] > 0
  /\ \A m \in DOMAIN sent : m[1] # manual.user => sent[m] = 0

(***************************************************************************)
(* C19.  Every product compare_products was called with, and every record  *)
(* in graphic_cards.json, has a price below TARGET_PRICE: a product at or  *)
(* above it is left out by parse_products.                                 *)
(***************************************************************************)
C19_BelowThreshold ==
  /\ \A i \in DOMAIN last_call.snapshot :
       /\ last_call.snapshot[i].price.valid
       /\ last_call.snapshot[i].price.whole < TARGET_PRICE
  /\ \A k \in DOMAIN Persisted(data_file) :
       /\ Persisted(data_file)[k].price.valid
       /\ Persisted(data_file)[k].price.whole < TARGET_PRICE

\* a complete fetch of the listing that shows a product at TARGET_PRICE
\* was compared and its cheaper products are stored
C19_Witness ==
  /\ Called
  /\ ~last_call.truncated
  /\ site_changes = 0
  /\ \E p \in DOMAIN site : \E i \in DOMAIN site[p] :
       parse_price(site[p][i].price_text).whole = TARGET_PRICE
  /\ last_call.snapshot # <<>>
  /\ Persisted(data_file) # NoCards

(***************************************************************************)
(* C20.  After a call of compare_products: a record that was stored before *)
(* the call and still is has the first_seen it had; every product of the   *)
(* snapshot has a record whose last_updated is the time of the call; no    *)
(* record has a first_seen after its last_updated; no record's             *)
(* last_updated is earlier than it was.                                    *)
(***************************************************************************)
C20_Timestamps ==
  Called =>
    LET before == Persisted(last_call.before)
        after  == Persisted(data_file)
        kept   == DOMAIN before \cap DOMAIN after
    IN  /\ \A k \in kept : after[k].first_seen = before[k].first_seen
        /\ \A k \in Identities(last_call.snapshot) :
             k \in DOMAIN after /\ after[k].last_updated = last_call.at
        /\ \A k \in DOMAIN after : after[k].first_seen <= after[k].last_updated
        /\ \A k \in kept : after[k].last_updated >= before[k].last_updated

(***************************************************************************)
(* C21.  A product whose price text holds nothing that converts to a       *)
(* number is in no list handed to compare_products; the products of its    *)
(* page that have all their elements, a price that converts and is below   *)
(* TARGET_PRICE are all returned, in the page's order; and the cycle goes  *)
(* on to compare_products and its normal sleep.                            *)
(***************************************************************************)
\* float() accepts the cleaned text exactly when a digit is left in it
HasDigit(price_text) == \E i \in DOMAIN price_text : IsDigit(price_text[i])

Qualifies(element) ==
  /\ element.elems = Elements
  /\ HasDigit(element.price_text)
  /\ parse_price(element.price_text).whole < TARGET_PRICE

Brief(items) == [i \in DOMAIN items |-> <<items[i].title, items[i].price_text>>]

C21_UnparseableSkipped ==
  /\ \A i \in DOMAIN sched.all_products :
       HasDigit(sched.all_products[i].price_text)
  /\ \A i \in DOMAIN last_call.snapshot :
       HasDigit(last_call.snapshot[i].price_text)
  /\ (sched.pc = "fetch" /\ sched.page = 2) =>
       Brief(sched.all_products) = Brief(SelectSeq(site[1], Qualifies))
  /\ (Called /\ ~last_call.truncated) =>
       Brief(last_call.snapshot) = Brief(SelectSeq(site[1], Qualifies))
  /\ (sched.pc = "sleeping" /\ faults = 0) =>
       (Called /\ ~sched.failed /\ sched.sleep = NORMAL_SLEEP)

\* a page with an unconvertible price before a qualifying product was
\* fetched, and the cycle compared the qualifying products and sleeps
C21_Witness ==
  /\ sched.pc = "sleeping"
  /\ faults = 0
  /\ Called
  /\ last_call.snapshot # <<>>
  /\ \E i, j \in DOMAIN site[1] :
       /\ i < j
       /\ site[1][i].elems = Elements
       /\ ~HasDigit(site[1][i].price_text)
       /\ Qualifies(site[1][j])

(***************************************************************************)
(* C22.  parse_price returns for a text what it returns for the text with  *)
(* each comma written as a period.  The digits before the first separator  *)
(* are the whole part and all digits after it, whatever separators stand   *)
(* between them, are the fractional digits; spaces and letters count for   *)
(* nothing.  '1 234,50 p.' gives 1234.5.                                   *)
(***************************************************************************)
IsSeparator(c) == c = "," \/ c = "."

WithPeriods(text) == [i \in DOMAIN text |-> IF text[i] = "," THEN "." ELSE text[i]]

\* index of the first separator of text, Len(text) + 1 when there is none
FirstSeparator(text) ==
  IF \E i \in DOMAIN text : IsSeparator(text[i])
  THEN CHOOSE i \in DOMAIN text :
         IsSeparator(text[i]) /\ \A j \in 1..(i - 1) : ~IsSeparator(text[j])
  ELSE Len(text) + 1

\* the number the text stands for, None when it holds no digit
Normalized(text) ==
  LET k      == FirstSeparator(text)
      before == SelectSeq(SubSeq(text, 1, k - 1), IsDigit)
      after  == SelectSeq(SubSeq(text, k + 1, Len(text)), IsDigit)
  IN  IF before = <<>> /\ after = <<>> THEN NoPrice
      ELSE [valid |-> TRUE, whole |-> ToNat(before, Len(before)),
            frac |-> StripZeros(after)]

C22_CommaIsPeriod ==
  returned.of = "parse_price" =>
    LET price_text == site[1][1].price_text
    IN  /\ returned.value = parse_price(WithPeriods(price_text))
        /\ returned.value = Normalized(price_text)
        /\ price_text = LongComma =>
             returned.value = [valid |-> TRUE, whole |-> 1234, frac |-> <<"5">>]

\* parse_price has returned for '1 234,50 p.': thousands spacing, a comma
\* and, with the period of the suffix, a second separator
C22_Witness ==
  /\ returned.of = "parse_price"
  /\ site[1][1].price_text = LongComma
  /\ returned.value.valid

(***************************************************************************)
(* C23.  check_now starts its fetch only for a user who is in the list of  *)
(* subscribers.  For any other user it answers that the user is not        *)
(* subscribed, and that step leaves graphic_cards.json, night_mode.json    *)
(* and subscriptions.json as they were, calls no compare_products, sends   *)
(* no message, starts no fetch and leaves scheduled_task where it is.      *)
(***************************************************************************)
C23_NotSubscribedNoCheck ==
  [][/\ (manual.pc = "idle" /\ manual'.pc = "fetch") =>
          manual'.user \in Range(get_all_users(subs_file))
     /\ (returned'.of = "check_now"
           /\ (returned.of # "check_now" \/ returned'.n # returned.n)) =>
          /\ returned'.user_id \notin Range(get_all_users(subs_file))
          /\ manual' = manual
          /\ sched' = sched
          /\ data_file' = data_file
          /\ night_file' = night_file
          /\ subs_file' = subs_file
          /\ last_call' = last_call
          /\ sent' = sent]_vars

\* check_now has refused a user who is not subscribed while another user
\* is, with records in the store
C23_Witness ==
  /\ returned.of = "check_now"
  /\ returned.value = "not_subscribed"
  /\ returned.user_id \notin Range(get_all_users(subs_file))
  /\ get_all_users(subs_file) # <<>>
  /\ Persisted(data_file) # NoCards
  /\ manual.pc = "idle"

====
